---- MODULE Spec2Model ----
(***************************************************************************)
(* Batch voice cloning driver (voice_clone.py): subtitle parsing,          *)
(* reference audio lookup, the per-entry loop of process_batch_mode and    *)
(* the synthesis call, as a state machine over a small file system.        *)
(***************************************************************************)
EXTENDS Integers, Sequences, FiniteSets, TLC

VARIABLES
    args,           \* the parsed command line (argparse namespace)
    srt_exists,     \* os.path.exists(args.srt)
    srt_blocks,     \* the subtitle file, split into blocks of lines
    dirs,           \* directories that exist
    ref_files,      \* input-side files that exist (full paths)
    out,            \* output path -> file on disk
    pc,             \* position of the process
    subtitles,      \* process_batch_mode: parsed entries
    total, success_count, skip_count, error_count,
    idx,            \* enumerate(subtitles, 1) index of the current entry
    ref_audio, output_path,   \* locals of the loop body
    stream,         \* results the engine's generator yields for this call
    rng_seed,       \* process-wide random state: <<>> or <<seed>>
    engine_calls,   \* log: engine invocations of this run
    n_resolve, n_synth, n_write,   \* log: lookups, synthesize calls, writes
    n_unresolved, n_failed,        \* log: failure events of this run
    summary,        \* the printed summary, <<>> before it is printed
    run, out0,      \* which run this is, and the output files when it began
    q_id, q_res, q_n, q_hist       \* a caller of find_reference_audio alone

vars == <<args, srt_exists, srt_blocks, dirs, ref_files, out, pc, subtitles,
          total, success_count, skip_count, error_count, idx, ref_audio,
          output_path, stream, rng_seed, engine_calls, n_resolve, n_synth,
          n_write, n_unresolved, n_failed, summary, run, out0,
          q_id, q_res, q_n, q_hist>>

-----------------------------------------------------------------------------
(* Bounds of the model *)
MaxBlocks == 3      \* blocks in the subtitle file
MaxStream == 2      \* results the engine may yield for one call
MaxLookups == 2     \* repeated lookups on one directory

-----------------------------------------------------------------------------
(* Python values *)
None == "None"
Truthy(s) == s # None /\ s # ""

Digit == <<"0", "1", "2", "3", "4", "5", "6", "7", "8", "9">>

\* str(n) / f"{n}" of a non-negative int
RECURSIVE Str(_)
Str(n) == IF n < 10 THEN Digit[n + 1]
          ELSE Str(n \div 10) \o Digit[(n % 10) + 1]

\* f"{n:03d}" of a non-negative int
Pad3(n) == IF Len(Str(n)) >= 3 THEN Str(n)
           ELSE IF Len(Str(n)) = 2 THEN "0" \o Str(n)
           ELSE "00" \o Str(n)

\* os.path.join(a, b) of a directory and a plain file name
Join(a, b) == IF a = "" THEN b ELSE a \o "/" \o b

\* os.path.exists on an input-side path
Exists(path) == path \in ref_files \/ path \in dirs

-----------------------------------------------------------------------------
(* parse_srt *)

DigitValue(c) == CHOOSE d \in 0..9 : Digit[d + 1] = c
IsDigit(c) == \E d \in 0..9 : Digit[d + 1] = c

\* int(s) raises ValueError; s is the stripped id line as a sequence of
\* characters, here digits and letters only (no sign, blank or underscore)
IntRaises(s) == s = <<>> \/ \E i \in 1..Len(s) : ~IsDigit(s[i])

RECURSIVE IntOf(_)
IntOf(s) == IF s = <<>> THEN 0
            ELSE 10 * IntOf(SubSeq(s, 1, Len(s) - 1)) + DigitValue(s[Len(s)])

\* ' '.join(lines[2:]) ; lines after the first are plain strings
RECURSIVE JoinText(_, _)
JoinText(block, i) ==
    IF i > Len(block) THEN ""
    ELSE IF i = Len(block) THEN block[i]
    ELSE block[i] \o " " \o JoinText(block, i + 1)

\* variant of parse_srt that gives up at the first malformed block
RECURSIVE parse_srt_stops(_)
parse_srt_stops(blocks) ==
    IF blocks = <<>> THEN <<>>
    ELSE LET block == Head(blocks)
         IN IF Len(block) >= 3 /\ ~IntRaises(block[1])
            THEN <<[id |-> IntOf(block[1]), timestamp |-> block[2],
                    text |-> JoinText(block, 3)]>> \o parse_srt_stops(Tail(blocks))
            ELSE <<>>

RECURSIVE parse_srt(_)
parse_srt(blocks) ==
    IF blocks = <<>> THEN <<>>
    ELSE LET block == Head(blocks)
             rest == parse_srt(Tail(blocks))
         IN IF Len(block) >= 3 /\ ~IntRaises(block[1])
            THEN <<[id |-> IntOf(block[1]), timestamp |-> block[2],
                    text |-> JoinText(block, 3)]>> \o rest
            ELSE rest

-----------------------------------------------------------------------------
(* find_reference_audio *)

\* variant of patterns with the unpadded underscore names tried first
patterns_swapped(audio_prefix, subtitle_id) ==
    << audio_prefix \o "_" \o Str(subtitle_id) \o ".wav",
       audio_prefix \o "_" \o Str(subtitle_id) \o ".mp3",
       audio_prefix \o "_" \o Pad3(subtitle_id) \o ".wav",
       audio_prefix \o "_" \o Pad3(subtitle_id) \o ".mp3",
       audio_prefix \o Pad3(subtitle_id) \o ".wav",
       audio_prefix \o Pad3(subtitle_id) \o ".mp3",
       audio_prefix \o Str(subtitle_id) \o ".wav",
       audio_prefix \o Str(subtitle_id) \o ".mp3",
       audio_prefix \o "_" \o Pad3(subtitle_id) \o ".mp4",
       audio_prefix \o "_" \o Pad3(subtitle_id) \o ".m4a" >>

patterns(audio_prefix, subtitle_id) ==
    << audio_prefix \o "_" \o Pad3(subtitle_id) \o ".wav",
       audio_prefix \o "_" \o Pad3(subtitle_id) \o ".mp3",
       audio_prefix \o "_" \o Str(subtitle_id) \o ".wav",
       audio_prefix \o "_" \o Str(subtitle_id) \o ".mp3",
       audio_prefix \o Pad3(subtitle_id) \o ".wav",
       audio_prefix \o Pad3(subtitle_id) \o ".mp3",
       audio_prefix \o Str(subtitle_id) \o ".wav",
       audio_prefix \o Str(subtitle_id) \o ".mp3",
       audio_prefix \o "_" \o Pad3(subtitle_id) \o ".mp4",
       audio_prefix \o "_" \o Pad3(subtitle_id) \o ".m4a" >>

\* the for loop over patterns, from position i on
RECURSIVE ScanPatterns(_, _, _)
ScanPatterns(reference_dir, pats, i) ==
    IF i > Len(pats) THEN None
    ELSE IF Exists(Join(reference_dir, pats[i]))
         THEN Join(reference_dir, pats[i])
         ELSE ScanPatterns(reference_dir, pats, i + 1)

find_reference_audio(reference_dir, subtitle_id, audio_prefix) ==
    ScanPatterns(reference_dir, patterns(audio_prefix, subtitle_id), 1)

\* os.path.join(None, ...) raises TypeError
JoinRaises(reference_dir) == reference_dir = None

-----------------------------------------------------------------------------
(* Files on the output side *)
Absent == [st |-> "absent", id |-> 0, k |-> 0, ver |-> 0]
Partial == [st |-> "partial", id |-> 0, k |-> 0, ver |-> 0]
Old == [st |-> "complete", id |-> 0, k |-> 0, ver |-> 0]
\* the k-th result of the engine for entry id, as the ver-th write of the run
Audio(id, k, ver) == [st |-> "complete", id |-> id, k |-> k, ver |-> ver]

OutExists(path) == out[path].st # "absent"

\* f"{args.output_prefix}_{subtitle_id:03d}.wav" under args.output
OutputPathOf(subtitle_id) ==
    Join(args.output, args.output_prefix \o "_" \o Pad3(subtitle_id) \o ".wav")

\* variant of ShouldSkip that skips without looking at the flag
ShouldSkip_flag_ignored(path) == OutExists(path)

\* variant of ShouldSkip that looks for the output among the input files
ShouldSkip_wrong_directory(path) == args.skip_existing /\ path \in ref_files

\* args.skip_existing and os.path.exists(output_path)
ShouldSkip(path) == args.skip_existing /\ OutExists(path)

\* variant of SeedFor that passes the base seed, as single mode does
seed_base_only(base_seed, subtitle_id) == base_seed

\* seed=args.seed + subtitle_id
SeedFor(base_seed, subtitle_id) == base_seed + subtitle_id

-----------------------------------------------------------------------------
(* Inputs *)
IdLines == { <<"1">>, <<"0", "2">>, <<"x">> }
Timestamp == "00:00:01,000 --> 00:00:02,000"
Blocks == { <<<<"1">>, Timestamp, "Hello">>,
            <<<<"0", "2">>, Timestamp, "World">>,
            <<<<"x">>, Timestamp, "Hello">>,
            <<<<"1">>, Timestamp>> }

RECURSIVE SeqsUpTo(_, _)
SeqsUpTo(S, n) ==
    IF n = 0 THEN {<<>>}
    ELSE LET shorter == SeqsUpTo(S, n - 1)
         IN shorter \cup {Append(s, x) : s \in {t \in shorter : Len(t) = n - 1}, x \in S}

Documents == SeqsUpTo(Blocks, MaxBlocks)

RefDir == "refs"
SharedAudio == "voice.wav"
RefChoices ==
    { [reference |-> "voice.mp3", reference_dir |-> None, audio_path |-> None],
      [reference |-> None, reference_dir |-> RefDir, audio_path |-> None],
      [reference |-> None, reference_dir |-> None, audio_path |-> SharedAudio] }

BatchArgs ==
    { [srt |-> "subs.srt", reference |-> r.reference,
       reference_dir |-> r.reference_dir, audio_path |-> r.audio_path,
       prompt_text |-> "", audio_prefix |-> "segment",
       output_prefix |-> "clone", output |-> "outputs_cosyvoice",
       instruct |-> "", skip_existing |-> s, seed |-> b]
      : r \in RefChoices, s \in BOOLEAN, b \in {0, 42} }

DirFiles == { Join(RefDir, "segment_001.wav"), Join(RefDir, "segment2.mp3") }
OutIds == {IntOf(l) : l \in {m \in IdLines : ~IntRaises(m)}}
OutPaths == { Join("outputs_cosyvoice", "clone_" \o Pad3(i) \o ".wav") : i \in OutIds }
OldOutPath == Join("outputs_cosyvoice", "clone_001.wav")

QIds == {5, 100}
QDir == "refs"
QFiles(id) == { Join(QDir, patterns("segment", id)[i]) : i \in 1..10 }
                \cup { Join(QDir, "segment_" \o Str(id) \o ".flac") }

-----------------------------------------------------------------------------
(* Initial states *)
RunStart ==
    /\ subtitles = <<>>
    /\ total = 0 /\ success_count = 0 /\ skip_count = 0 /\ error_count = 0
    /\ idx = 0
    /\ ref_audio = None /\ output_path = None
    /\ stream = <<>>
    /\ rng_seed = <<>>
    /\ engine_calls = {}
    /\ n_resolve = 0 /\ n_synth = 0 /\ n_write = 0
    /\ n_unresolved = 0 /\ n_failed = 0
    /\ summary = <<>>

Init ==
    /\ args \in BatchArgs
    /\ srt_exists \in BOOLEAN
    /\ srt_blocks \in (IF srt_exists THEN Documents ELSE {<<>>})
    /\ dirs \in (IF args.reference_dir = None THEN {{}} ELSE SUBSET {RefDir})
    /\ ref_files \in (IF args.audio_path # None THEN SUBSET {SharedAudio}
                      ELSE IF RefDir \in dirs THEN SUBSET DirFiles
                      ELSE {{}})
    /\ out \in { [p \in OutPaths |-> IF p \in E THEN Old ELSE Absent]
                 : E \in SUBSET {OldOutPath} }
    /\ pc = "main"
    /\ RunStart
    /\ run = "first" /\ out0 = out
    /\ q_id = 0 /\ q_res = None /\ q_n = 0 /\ q_hist = {}

\* a second run is only looked at with --skip-existing
InitRerun == Init /\ args.skip_existing /\ args.seed = 42

\* a directory with any of the candidate files of one id, and one other file
InitResolve ==
    /\ args \in {a \in BatchArgs : a.reference_dir = RefDir /\ ~a.skip_existing
                                    /\ a.seed = 42}
    /\ srt_exists = FALSE /\ srt_blocks = <<>>
    /\ q_id \in QIds
    /\ dirs = {QDir}
    /\ ref_files \in SUBSET QFiles(q_id)
    /\ out = [p \in OutPaths |-> Absent]
    /\ pc = "lookup"
    /\ RunStart
    /\ run = "first" /\ out0 = out
    /\ q_res = None /\ q_n = 0 /\ q_hist = {}

-----------------------------------------------------------------------------
(* process_batch_mode *)

locals == <<ref_audio, output_path, stream>>
inputs == <<args, srt_exists, srt_blocks, dirs, ref_files>>
counters == <<success_count, skip_count, error_count>>
logs == <<engine_calls, n_resolve, n_synth, n_write, n_unresolved, n_failed>>
query == <<q_id, q_res, q_n, q_hist>>

subtitle_id == subtitles[idx].id

\* lines 355-364: the pre-flight checks
Validate ==
    /\ pc = "main"
    /\ IF ~srt_exists
       THEN pc' = "returned"
       ELSE IF /\ Truthy(args.reference_dir)
               /\ args.reference_dir \notin dirs
               /\ ~(Truthy(args.audio_path) /\ Exists(args.audio_path))
            THEN pc' = "returned"
            ELSE pc' = "parse"
    /\ UNCHANGED <<inputs, out, subtitles, total, counters, idx, locals,
                   rng_seed, logs, summary, run, out0, query>>

\* lines 366-382
Parse ==
    /\ pc = "parse"
    /\ subtitles' = parse_srt(srt_blocks)
    /\ IF subtitles' = <<>>
       THEN pc' = "returned" /\ total' = total
       ELSE pc' = "loop" /\ total' = Len(subtitles')
    /\ success_count' = 0 /\ skip_count' = 0 /\ error_count' = 0
    /\ idx' = 0
    /\ UNCHANGED <<inputs, out, locals, rng_seed, logs, summary, run, out0, query>>

\* lines 385-405: next entry, reference audio
ResolveRef ==
    /\ pc = "loop"
    /\ idx < total
    /\ idx' = idx + 1
    /\ n_resolve' = n_resolve + 1
    /\ LET id == subtitles[idx + 1].id
           use_single_audio == args.audio_path # None
       IN IF ~use_single_audio /\ JoinRaises(args.reference_dir)
          THEN /\ pc' = "crashed"
               /\ UNCHANGED <<error_count, n_unresolved, ref_audio>>
          ELSE LET found == IF use_single_audio THEN args.audio_path
                            ELSE find_reference_audio(args.reference_dir, id,
                                                      args.audio_prefix)
               IN IF ~Truthy(found)
                  THEN /\ error_count' = error_count + 1
                       /\ n_unresolved' = n_unresolved + 1
                       /\ ref_audio' = None
                       /\ pc' = "loop"
                  ELSE /\ ref_audio' = found
                       /\ pc' = "try"
                       /\ UNCHANGED <<error_count, n_unresolved>>
    /\ UNCHANGED <<inputs, out, subtitles, total, success_count, skip_count,
                   output_path, stream, rng_seed, engine_calls, n_synth,
                   n_write, n_failed, summary, run, out0, query>>

\* the for loop is exhausted
LoopExit ==
    /\ pc = "loop"
    /\ idx = total
    /\ pc' = "summary"
    /\ UNCHANGED <<inputs, out, subtitles, total, counters, idx, locals,
                   rng_seed, logs, summary, run, out0, query>>

\* lines 407-418: output path, skip-existing, call of synthesize_with_cosyvoice
CheckSkip ==
    /\ pc = "try"
    /\ IF ShouldSkip(OutputPathOf(subtitle_id))
       THEN /\ skip_count' = skip_count + 1
            /\ pc' = "loop"
            /\ ref_audio' = None /\ output_path' = None
            /\ UNCHANGED n_synth
       ELSE /\ output_path' = OutputPathOf(subtitle_id)
            /\ n_synth' = n_synth + 1
            /\ pc' = "load_wav"
            /\ UNCHANGED <<skip_count, ref_audio>>
    /\ UNCHANGED <<inputs, out, subtitles, total, success_count, error_count,
                   idx, stream, rng_seed, engine_calls, n_resolve, n_write,
                   n_unresolved, n_failed, summary, run, out0, query>>

\* line 278: load_wav raises on a missing or unreadable file
LoadWav ==
    /\ pc = "load_wav"
    /\ \E ok \in BOOLEAN :
          /\ ok => Exists(ref_audio)
          /\ IF ok THEN pc' = "set_seed" /\ UNCHANGED n_failed
             ELSE pc' = "except" /\ n_failed' = n_failed + 1
    /\ UNCHANGED <<inputs, out, subtitles, total, counters, idx, locals,
                   rng_seed, engine_calls, n_resolve, n_synth, n_write,
                   n_unresolved, summary, run, out0, query>>

\* line 281 with the argument of line 425
SetSeed ==
    /\ pc = "set_seed"
    /\ rng_seed' = <<SeedFor(args.seed, subtitle_id)>>
    /\ pc' = "infer"
    /\ UNCHANGED <<inputs, out, subtitles, total, counters, idx, locals,
                   logs, summary, run, out0, query>>

\* lines 284-303: the engine is invoked and raises, or yields its results
Infer ==
    /\ pc = "infer"
    /\ \E raises \in BOOLEAN, n \in 0..MaxStream :
          IF raises
          THEN /\ n = 0
               /\ pc' = "except"
               /\ n_failed' = n_failed + 1
               /\ UNCHANGED stream
          ELSE /\ stream' = [i \in 1..n |-> [tts_speech |-> <<subtitle_id, i>>]]
               /\ pc' = "consume"
               /\ UNCHANGED n_failed
    /\ engine_calls' = engine_calls \cup
          {[idx |-> idx, id |-> subtitle_id, seed |-> rng_seed,
            method |-> IF Truthy(args.instruct) THEN "inference_instruct2"
                       ELSE "inference_zero_shot"]}
    /\ UNCHANGED <<inputs, out, subtitles, total, counters, idx, ref_audio,
                   output_path, rng_seed, n_resolve, n_synth, n_write,
                   n_unresolved, summary, run, out0, query>>

\* lines 303-306: first result, torchaudio.save opens the output file
Consume ==
    /\ pc = "consume"
    /\ IF stream = <<>>
       THEN /\ pc' = "return"
            /\ UNCHANGED <<out, n_write, n_failed>>
       ELSE \E opened \in BOOLEAN :
               IF opened
               THEN /\ out' = [out EXCEPT ![output_path] = Partial]
                    /\ n_write' = n_write + 1
                    /\ pc' = "saving"
                    /\ UNCHANGED n_failed
               ELSE /\ pc' = "except"
                    /\ n_failed' = n_failed + 1
                    /\ UNCHANGED <<out, n_write>>
    /\ UNCHANGED <<inputs, subtitles, total, counters, idx, locals, rng_seed,
                   engine_calls, n_resolve, n_synth, n_unresolved, summary,
                   run, out0, query>>

\* line 305: torchaudio.save writes the samples, or fails part-way
SaveFinish ==
    /\ pc = "saving"
    /\ \E ok \in BOOLEAN :
          IF ok
          THEN /\ out' = [out EXCEPT ![output_path] =
                            Audio(stream[1].tts_speech[1],
                                  stream[1].tts_speech[2], n_write)]
               /\ pc' = "return"
               /\ UNCHANGED n_failed
          ELSE /\ pc' = "except"
               /\ n_failed' = n_failed + 1
               /\ UNCHANGED out
    /\ UNCHANGED <<inputs, subtitles, total, counters, idx, locals, rng_seed,
                   engine_calls, n_resolve, n_synth, n_write, n_unresolved,
                   summary, run, out0, query>>

\* lines 428-429
CountSuccess ==
    /\ pc = "return"
    /\ success_count' = success_count + 1
    /\ pc' = "loop"
    /\ ref_audio' = None /\ output_path' = None /\ stream' = <<>>
    /\ UNCHANGED <<inputs, out, subtitles, total, skip_count, error_count, idx,
                   rng_seed, logs, summary, run, out0, query>>

\* variant of HandleExcept that reports the error without counting it
HandleExcept_uncounted ==
    /\ pc = "except"
    /\ pc' = "loop"
    /\ ref_audio' = None /\ output_path' = None /\ stream' = <<>>
    /\ UNCHANGED <<inputs, out, subtitles, total, counters, idx,
                   rng_seed, logs, summary, run, out0, query>>

\* lines 431-434
HandleExcept ==
    /\ pc = "except"
    /\ error_count' = error_count + 1
    /\ pc' = "loop"
    /\ ref_audio' = None /\ output_path' = None /\ stream' = <<>>
    /\ UNCHANGED <<inputs, out, subtitles, total, success_count, skip_count, idx,
                   rng_seed, logs, summary, run, out0, query>>

\* lines 436-445
PrintSummary ==
    /\ pc = "summary"
    /\ summary' = <<[total |-> total, success |-> success_count,
                     skipped |-> skip_count, errors |-> error_count]>>
    /\ pc' = "done"
    /\ UNCHANGED <<inputs, out, subtitles, total, counters, idx, locals,
                   rng_seed, logs, run, out0, query>>

Next ==
    \/ Validate
    \/ Parse
    \/ ResolveRef
    \/ LoopExit
    \/ CheckSkip
    \/ LoadWav
    \/ SetSeed
    \/ Infer
    \/ Consume
    \/ SaveFinish
    \/ CountSuccess
    \/ HandleExcept
    \/ PrintSummary

Spec == Init /\ [][Next]_vars

\* an external interrupt (KeyboardInterrupt is no Exception: nothing catches it)
Interrupt ==
    /\ pc \notin {"returned", "done", "crashed", "interrupted", "lookup"}
    /\ pc' = "interrupted"
    /\ UNCHANGED <<inputs, out, subtitles, total, counters, idx, locals,
                   rng_seed, logs, summary, run, out0, query>>

NextInterrupt == Next \/ Interrupt

InterruptSpec == Init /\ [][NextInterrupt]_vars

\* the script is started again on the same inputs and output directory
Rerun ==
    /\ pc = "done"
    /\ run = "first"
    /\ run' = "second"
    /\ out0' = out
    /\ pc' = "main"
    /\ subtitles' = <<>>
    /\ total' = 0 /\ success_count' = 0 /\ skip_count' = 0 /\ error_count' = 0
    /\ idx' = 0
    /\ rng_seed' = <<>>
    /\ engine_calls' = {}
    /\ n_resolve' = 0 /\ n_synth' = 0 /\ n_write' = 0
    /\ n_unresolved' = 0 /\ n_failed' = 0
    /\ summary' = <<>>
    /\ UNCHANGED <<inputs, out, locals, query>>

NextRerun == Next \/ Rerun

RerunSpec == InitRerun /\ [][NextRerun]_vars

\* find_reference_audio called on an unchanged directory
Lookup ==
    /\ pc = "lookup"
    /\ q_n < MaxLookups
    /\ q_res' = find_reference_audio(QDir, q_id, args.audio_prefix)
    /\ q_n' = q_n + 1
    /\ q_hist' = q_hist \cup {q_res'}
    /\ UNCHANGED <<inputs, out, pc, subtitles, total, counters, idx, locals,
                   rng_seed, logs, summary, run, out0, q_id>>

NextResolve == Lookup

ResolveSpec == InitResolve /\ [][NextResolve]_vars

-----------------------------------------------------------------------------
(* Properties *)

InIteration == pc \in {"try", "load_wav", "set_seed", "infer", "consume",
                       "saving", "return", "except"}
InSynthesis == pc \in {"load_wav", "set_seed", "infer", "consume", "saving",
                       "return", "except"}

\* C1: every parsed entry yields exactly one outcome: after the k-th iteration
\* the three counters sum to k, inside the k-th iteration they sum to k - 1,
\* and at the summary they sum to total, the number of parsed entries.
C1_OneOutcomePerEntry ==
    /\ pc = "loop" => success_count + skip_count + error_count = idx
    /\ InIteration => success_count + skip_count + error_count = idx - 1
    /\ pc \in {"summary", "done"} =>
          /\ idx = total
          /\ success_count + skip_count + error_count = total
          /\ total = Len(parse_srt(srt_blocks))
    /\ pc = "done" =>
          summary[1].success + summary[1].skipped + summary[1].errors
             = summary[1].total

C1_Witness ==
    /\ pc = "done" /\ total = 3
    /\ success_count = 1 /\ skip_count = 1 /\ error_count = 1
    /\ n_unresolved = 1

\* C2: once a batch run has begun processing, no failure of a single entry
\* ends the run: the process never stops short of the summary, and a finished
\* run has attempted every entry and printed the summary.
C2_NoEntryFailureEndsRun ==
    total > 0 =>
       /\ pc # "crashed"
       /\ pc = "done" => (summary # <<>> /\ n_resolve = total)

PreflightFails ==
    \/ ~srt_exists
    \/ args.reference_dir # None /\ args.reference_dir \notin dirs
    \/ args.audio_path # None /\ ~Exists(args.audio_path)
    \/ parse_srt(srt_blocks) = <<>>

\* C3: a run whose subtitle file is missing, whose reference directory or
\* shared audio path does not exist, or whose subtitle file has no valid entry
\* returns before any entry is processed: no reference resolution, no
\* synthesis call, no output write.
C3_PreflightFailureStopsRun ==
    PreflightFails =>
       /\ n_resolve = 0 /\ n_synth = 0 /\ n_write = 0
       /\ pc \notin {"summary", "done"}

\* the reference audio the loop body uses for an entry
RefOf(id) == IF args.audio_path # None THEN args.audio_path
             ELSE find_reference_audio(args.reference_dir, id, args.audio_prefix)

\* entries of the second run with a reference and an output file from before
Settled == {i \in 1..total :
               /\ args.audio_path # None \/ args.reference_dir # None
               /\ Truthy(RefOf(subtitles[i].id))
               /\ out0[OutputPathOf(subtitles[i].id)].st # "absent"}

\* C4 as stated: the second of two runs with skip_existing counts every entry
\* as Skipped, calls no synthesis, writes nothing and leaves the files alone.
C4_SecondRunAllSkipped ==
    (run = "second" /\ pc = "done") =>
       /\ skip_count = total /\ success_count = 0 /\ error_count = 0
       /\ n_synth = 0 /\ n_write = 0
       /\ out = out0

\* C4 amended: in the second run every entry whose reference audio resolves
\* and whose output file exists when the run starts is counted as Skipped
\* without a synthesis call or a write, and those files stay as they were; if
\* that is every entry, skip_count = total, the other counters are 0 and there
\* is no synthesis call and no write at all.
C4_SecondRunSkipsExistingOutputs ==
    run = "second" =>
       /\ \A p \in OutPaths : out0[p].st # "absent" => out[p] = out0[p]
       /\ InSynthesis => out0[OutputPathOf(subtitle_id)].st = "absent"
       /\ pc = "done" =>
             /\ skip_count >= Cardinality(Settled)
             /\ Settled = 1..total =>
                   /\ skip_count = total
                   /\ success_count = 0 /\ error_count = 0
                   /\ n_synth = 0 /\ n_write = 0 /\ engine_calls = {}

C4_Witness ==
    /\ run = "second" /\ pc = "done"
    /\ total >= 2 /\ skip_count = total
    /\ \E p \in OutPaths : out0[p].ver > 0

\* C5: when the process is interrupted, every output file on disk is complete:
\* the file of the entry in flight is absent or fully written.
C5_NoPartialFileAfterInterrupt ==
    pc = "interrupted" => \A p \in OutPaths : out[p].st # "partial"

\* blocks that parse_srt rejects: fewer than 3 lines, or a non-integer id
Malformed(block) == Len(block) < 3 \/ IntRaises(block[1])
NumMalformed(blocks) == Cardinality({i \in 1..Len(blocks) : Malformed(blocks[i])})

\* C6 as stated: malformed blocks, unresolved references and failed syntheses
\* each add one to the error count of the summary.
C6_AllThreeKindsCounted ==
    pc = "done" =>
       summary[1].errors = NumMalformed(srt_blocks) + n_unresolved + n_failed

\* C6 amended: an unresolved reference and a failed synthesis or write each
\* add one to the error count and the loop goes on; a malformed block is left
\* out by the parser, which goes on with the next block, and is counted
\* neither in total nor in the error count.
C6_EntryFailuresCounted ==
    /\ pc \in {"loop", "summary", "done"} =>
          /\ error_count = n_unresolved + n_failed
          /\ total = Len(srt_blocks) - NumMalformed(srt_blocks)
    /\ pc = "except" => error_count = n_unresolved + n_failed - 1
    /\ pc = "done" =>
          /\ summary[1].errors = n_unresolved + n_failed
          /\ summary[1].total = Len(srt_blocks) - NumMalformed(srt_blocks)
          /\ n_resolve = total

C6_Witness ==
    /\ pc = "done"
    /\ Malformed(srt_blocks[1]) /\ Len(srt_blocks) = 3
    /\ n_unresolved = 1 /\ n_failed = 1 /\ error_count = 2

\* the candidate order as the claim lists it
C7_Candidates(prefix, id) ==
    LET NNN == Pad3(id)
        N == Str(id)
    IN << prefix \o "_" \o NNN \o ".wav", prefix \o "_" \o NNN \o ".mp3",
          prefix \o "_" \o N \o ".wav", prefix \o "_" \o N \o ".mp3",
          prefix \o NNN \o ".wav", prefix \o NNN \o ".mp3",
          prefix \o N \o ".wav", prefix \o N \o ".mp3",
          prefix \o "_" \o NNN \o ".mp4", prefix \o "_" \o NNN \o ".m4a" >>

\* C7: find_reference_audio returns the lowest-index existing candidate of the
\* ten, nothing exactly when none exists, and the same on every repeated call.
C7_FirstExistingCandidate ==
    q_n > 0 =>
       LET c == C7_Candidates(args.audio_prefix, q_id)
           E == {i \in 1..10 : Join(QDir, c[i]) \in ref_files}
       IN /\ (E = {}) <=> (q_res = None)
          /\ E # {} => q_res = Join(QDir, c[CHOOSE i \in E : \A j \in E : i <= j])
          /\ q_hist = {q_res}

C7_Witness ==
    /\ q_n >= 2 /\ q_id = 5
    /\ {"refs/segment_005.wav", "refs/segment5.mp3"} \subseteq ref_files
    /\ q_res = "refs/segment_005.wav"

\* C8: every engine invocation of the batch happens with the random state
\* seeded to base_seed + id of its entry, whatever the entry's position and
\* whatever happened to earlier entries.
C8_SeedIsBasePlusId ==
    /\ \A c \in engine_calls : c.seed = <<args.seed + c.id>>
    /\ pc = "infer" => rng_seed = <<args.seed + subtitle_id>>
    /\ \A c, d \in engine_calls : c.id = d.id => c.seed = d.seed

C8_Witness ==
    /\ args.seed = 42
    /\ \E c, d \in engine_calls :
          /\ c.seed = <<43>> /\ d.seed = <<44>>
          /\ d.idx < c.idx
    /\ n_failed > 0

C10_SuccessHasOutput ==
    pc = "return" =>
       /\ stream # <<>>
       /\ out[output_path] = Audio(subtitle_id, 1, n_write)

====
